---- MODULE Spec2Model ----
(***************************************************************************)
(* Model of the in-memory to-do backend: the task controller               *)
(* (getAllTasks, createTask, getTaskById, markTaskAsDone) and its          *)
(* module-level state `tasks` and `nextId`.  Each handler is synchronous   *)
(* and is therefore one atomic action.                                     *)
(***************************************************************************)
EXTENDS Integers, Sequences, FiniteSets, TLC

\* ---------------------------------------------------------------- bounds
\* createTask is enabled for an accepted title while fewer tasks are stored
MaxTasks == 3
\* requests delivered to the event loop in one run of SpecLoop
MaxCalls == 3

\* ------------------------------------------------------- JavaScript values
\* A value of req.body.title: `type` is the result of typeof, `val` a
\* printed form of the value.
Undefined == [type |-> "undefined", val |-> "undefined"]
Null == [type |-> "object", val |-> "null"]
Str(s) == [type |-> "string", val |-> s]
Num(s) == [type |-> "number", val |-> s]
Bool(s) == [type |-> "boolean", val |-> s]
Obj(s) == [type |-> "object", val |-> s]

\* req.body itself is undefined: the request carried no body the JSON
\* middleware parsed, and there is no object to read a title from
BodyAbsent == [type |-> "no body", val |-> "undefined"]

TitleStrings == {"", "A", "Buy milk"}

TitleValues ==
    {Undefined, Null, Num("0"), Num("42"), Bool("false"), Bool("true"), Obj("{}")}
        \cup {Str(s) : s \in TitleStrings}

\* what createTask is called with: a body holding one of the title values
\* (Undefined: a body without title), or no body at all
CreateInputs == TitleValues \cup {BodyAbsent}

\* ToBoolean(v) = false, the operand test of `!title`
Falsy(v) ==
    \/ v.type = "undefined"
    \/ v.type = "object" /\ v.val = "null"
    \/ v.type = "number" /\ v.val \in {"0", "NaN"}
    \/ v.type = "boolean" /\ v.val = "false"
    \/ v.type = "string" /\ v.val = ""

\* ------------------------------------------------------------ id segments
\* A string is a sequence of one-character strings.
Digits == {"0", "1", "2", "3", "4", "5", "6", "7", "8", "9"}

DigitVal(c) ==
    CASE c = "0" -> 0 [] c = "1" -> 1 [] c = "2" -> 2 [] c = "3" -> 3 [] c = "4" -> 4
      [] c = "5" -> 5 [] c = "6" -> 6 [] c = "7" -> 7 [] c = "8" -> 8 [] c = "9" -> 9

\* values of the :id path parameter (never empty: the route needs a segment)
Segments ==
    { <<"1">>, <<"2">>, <<"3">>, <<"4">>, <<"0">>, <<"9", "9", "9">>,
      <<"0", "2">>, <<" ", "2">>, <<"+", "1">>, <<"-", "1">>, <<"-">>,
      <<"1", "a", "b", "c">>, <<"1", ".", "5">>, <<"2", "e", "1">>,
      <<"a", "b", "c">>, <<"a", "1">>, <<".", "5">> }

RECURSIVE SkipWhite(_)
SkipWhite(s) ==
    IF s # <<>> /\ Head(s) = " " THEN SkipWhite(Tail(s)) ELSE s

RECURSIVE DigitPrefix(_)
DigitPrefix(s) ==
    IF s # <<>> /\ Head(s) \in Digits THEN <<Head(s)>> \o DigitPrefix(Tail(s)) ELSE <<>>

RECURSIVE DecimalValue(_)
DecimalValue(d) ==
    IF d = <<>> THEN 0
    ELSE 10 * DecimalValue(SubSeq(d, 1, Len(d) - 1)) + DigitVal(d[Len(d)])

NaN == [nan |-> TRUE, n |-> 0]

\* mutant: the whole string must be a decimal integer, as Number(s) wants
ParseInt_Strict(s) ==
    IF s # <<>> /\ DigitPrefix(s) = s
    THEN [nan |-> FALSE, n |-> DecimalValue(s)]
    ELSE NaN

\* parseInt(s, 10): skip leading white space, read an optional sign (+ or -), take
\* the longest prefix of decimal digits; no digit gives NaN.
ParseInt(s) ==
    LET t == SkipWhite(s)
        neg == t # <<>> /\ Head(t) = "-"
        u == IF t # <<>> /\ Head(t) \in {"-", "+"} THEN Tail(t) ELSE t
        d == DigitPrefix(u)
    IN IF d = <<>> THEN NaN
       ELSE [nan |-> FALSE, n |-> IF neg THEN 0 - DecimalValue(d) ELSE DecimalValue(d)]

\* isNaN(id)
IsNaN(p) == p.nan

\* t.id === id, for a numeric t.id and a parsed id; NaN equals nothing
StrictEq(a, p) == ~p.nan /\ a = p.n

\* ------------------------------------------------------------------ state
\* tasks, nextId: the controller's module state
\* req, res: the request last handled and the response it was given
\* createdLog: the (id, title) of every 201 response, in order
\* doneLog: the ids of the tasks a markTaskAsDone has answered 200 for
\* redoneLog: the ids it has answered 200 for more than once
\* calls: the handler calls of the requests delivered at once, in
\*        arrival order; each has its request, the statement it is at
\*        (pc), its local variables and, once done, its response
VARIABLES tasks, nextId, req, res, createdLog, doneLog, redoneLog, calls

vars == <<tasks, nextId, req, res, createdLog, doneLog, redoneLog, calls>>

Task(id, title, completed) == [id |-> id, title |-> title, completed |-> completed]

NoReq == [op |-> "none", title |-> Undefined, seg |-> <<>>]
Req(op, title, seg) == [op |-> op, title |-> title, seg |-> seg]

NoRes == [status |-> 0, kind |-> "none", error |-> "", tasks |-> <<>>]
\* res.status(code).json({ error: msg })
ErrorRes(code, msg) == [status |-> code, kind |-> "error", error |-> msg, tasks |-> <<>>]
\* res.status(code).json(task): the body is the task as it is at the call
TaskRes(code, t) == [status |-> code, kind |-> "task", error |-> "", tasks |-> <<t>>]
\* the handler ends in an uncaught exception and sends no response
ThrownRes(name) == [status |-> 0, kind |-> "thrown", error |-> name, tasks |-> <<>>]
\* res.json(tasks)
ListRes(code, ts) == [status |-> code, kind |-> "list", error |-> "", tasks |-> ts]

Init ==
    /\ tasks = <<>>
    /\ nextId = 1
    /\ req = NoReq
    /\ res = NoRes
    /\ createdLog = <<>>
    /\ doneLog = {}
    /\ redoneLog = {}
    /\ calls = <<>>

\* tasks.find((t) => t.id === id): index of the first match, 0 if none
RECURSIVE FindFrom(_, _, _)
FindFrom(ts, p, i) ==
    IF i > Len(ts) THEN 0
    ELSE IF StrictEq(ts[i].id, p) THEN i
    ELSE FindFrom(ts, p, i + 1)

FindIndex(ts, p) == FindFrom(ts, p, 1)

\* ---------------------------------------------------------------- actions
\* mutant: only the open tasks are listed (tasks.filter((t) => !t.completed))
getAllTasks_OpenOnly ==
    /\ req' = Req("list", Undefined, <<>>)
    /\ res' = ListRes(200, SelectSeq(tasks, LAMBDA t : ~t.completed))
    /\ UNCHANGED <<tasks, nextId, createdLog, doneLog, redoneLog>>

getAllTasks ==
    /\ req' = Req("list", Undefined, <<>>)
    /\ res' = ListRes(200, tasks)
    /\ UNCHANGED <<tasks, nextId, createdLog, doneLog, redoneLog>>

\* mutant: only the type is tested (typeof title !== 'string')
TitleRejected_TypeOnly(title) == title.type # "string"

\* !title || typeof title !== 'string'
TitleRejected(title) == Falsy(title) \/ title.type # "string"

\* mutant: nextId is never incremented
createTask_NoIncrement(title) ==
    /\ req' = Req("create", title, <<>>)
    /\ IF title = BodyAbsent
       THEN /\ res' = ThrownRes("TypeError")
            /\ UNCHANGED <<tasks, nextId, createdLog, doneLog, redoneLog>>
       ELSE IF TitleRejected(title)
       THEN /\ res' = ErrorRes(400, "Title is required and must be a string")
            /\ UNCHANGED <<tasks, nextId, createdLog, doneLog, redoneLog>>
       ELSE /\ Len(tasks) < MaxTasks
            /\ LET task == Task(nextId, title.val, FALSE)
               IN /\ tasks' = Append(tasks, task)
                  /\ nextId' = nextId
                  /\ res' = TaskRes(201, task)
                  /\ createdLog' = Append(createdLog, [id |-> task.id, title |-> task.title])
            /\ UNCHANGED <<doneLog, redoneLog>>

\* mutant: the id is taken from the counter before the title is validated
createTask_ValidateLate(title) ==
    /\ req' = Req("create", title, <<>>)
    /\ nextId' = nextId + 1
    /\ IF title = BodyAbsent
       THEN /\ res' = ThrownRes("TypeError")
            /\ UNCHANGED <<tasks, createdLog, doneLog, redoneLog>>
       ELSE IF TitleRejected(title)
       THEN /\ res' = ErrorRes(400, "Title is required and must be a string")
            /\ UNCHANGED <<tasks, createdLog, doneLog, redoneLog>>
       ELSE /\ Len(tasks) < MaxTasks
            /\ LET task == Task(nextId, title.val, FALSE)
               IN /\ tasks' = Append(tasks, task)
                  /\ res' = TaskRes(201, task)
                  /\ createdLog' = Append(createdLog, [id |-> task.id, title |-> task.title])
            /\ UNCHANGED <<doneLog, redoneLog>>

\* mutant: pre-increment, the task gets the incremented counter (id: ++nextId)
createTask_PreIncrement(title) ==
    /\ req' = Req("create", title, <<>>)
    /\ IF title = BodyAbsent
       THEN /\ res' = ThrownRes("TypeError")
            /\ UNCHANGED <<tasks, nextId, createdLog, doneLog, redoneLog>>
       ELSE IF TitleRejected(title)
       THEN /\ res' = ErrorRes(400, "Title is required and must be a string")
            /\ UNCHANGED <<tasks, nextId, createdLog, doneLog, redoneLog>>
       ELSE /\ Len(tasks) < MaxTasks
            /\ LET task == Task(nextId + 1, title.val, FALSE)
               IN /\ tasks' = Append(tasks, task)
                  /\ nextId' = nextId + 1
                  /\ res' = TaskRes(201, task)
                  /\ createdLog' = Append(createdLog, [id |-> task.id, title |-> task.title])
            /\ UNCHANGED <<doneLog, redoneLog>>

\* mutant: the new task is put in front (tasks.unshift(task))
createTask_Unshift(title) ==
    /\ req' = Req("create", title, <<>>)
    /\ IF title = BodyAbsent
       THEN /\ res' = ThrownRes("TypeError")
            /\ UNCHANGED <<tasks, nextId, createdLog, doneLog, redoneLog>>
       ELSE IF TitleRejected(title)
       THEN /\ res' = ErrorRes(400, "Title is required and must be a string")
            /\ UNCHANGED <<tasks, nextId, createdLog, doneLog, redoneLog>>
       ELSE /\ Len(tasks) < MaxTasks
            /\ LET task == Task(nextId, title.val, FALSE)
               IN /\ tasks' = <<task>> \o tasks
                  /\ nextId' = nextId + 1
                  /\ res' = TaskRes(201, task)
                  /\ createdLog' = Append(createdLog, [id |-> task.id, title |-> task.title])
            /\ UNCHANGED <<doneLog, redoneLog>>

\* `title` is the title of req.body, or BodyAbsent: then the destructuring
\* `const { title } = req.body` throws a TypeError
createTask(title) ==
    /\ req' = Req("create", title, <<>>)
    /\ IF title = BodyAbsent
       THEN /\ res' = ThrownRes("TypeError")
            /\ UNCHANGED <<tasks, nextId, createdLog, doneLog, redoneLog>>
       ELSE IF TitleRejected(title)
       THEN /\ res' = ErrorRes(400, "Title is required and must be a string")
            /\ UNCHANGED <<tasks, nextId, createdLog, doneLog, redoneLog>>
       ELSE /\ Len(tasks) < MaxTasks
            /\ LET task == Task(nextId, title.val, FALSE)
               IN /\ tasks' = Append(tasks, task)
                  /\ nextId' = nextId + 1
                  /\ res' = TaskRes(201, task)
                  /\ createdLog' = Append(createdLog, [id |-> task.id, title |-> task.title])
            /\ UNCHANGED <<doneLog, redoneLog>>

\* mutant: the isNaN check of markTaskAsDone is made here too
getTaskById_NaNCheck(seg) ==
    LET id == ParseInt(seg)
        i == FindIndex(tasks, id)
    IN /\ req' = Req("get", Undefined, seg)
       /\ IF IsNaN(id)
          THEN res' = ErrorRes(400, "Invalid ID format")
          ELSE IF i = 0
          THEN res' = ErrorRes(404, "Task not found")
          ELSE res' = TaskRes(200, tasks[i])
       /\ UNCHANGED <<tasks, nextId, createdLog, doneLog, redoneLog>>

\* mutant: the parsed id is used as an array index (tasks[id])
getTaskById_ByIndex(seg) ==
    LET id == ParseInt(seg)
        i == IF ~IsNaN(id) /\ id.n >= 0 /\ id.n < Len(tasks) THEN id.n + 1 ELSE 0
    IN /\ req' = Req("get", Undefined, seg)
       /\ IF i = 0
          THEN res' = ErrorRes(404, "Task not found")
          ELSE res' = TaskRes(200, tasks[i])
       /\ UNCHANGED <<tasks, nextId, createdLog, doneLog, redoneLog>>

getTaskById(seg) ==
    LET id == ParseInt(seg)
        i == FindIndex(tasks, id)
    IN /\ req' = Req("get", Undefined, seg)
       /\ IF i = 0
          THEN res' = ErrorRes(404, "Task not found")
          ELSE res' = TaskRes(200, tasks[i])
       /\ UNCHANGED <<tasks, nextId, createdLog, doneLog, redoneLog>>

\* mutant: the flag is toggled (completed = !completed)
markTaskAsDone_Toggle(seg) ==
    LET id == ParseInt(seg)
        taskIndex == FindIndex(tasks, id)
    IN /\ req' = Req("done", Undefined, seg)
       /\ IF IsNaN(id)
          THEN /\ res' = ErrorRes(400, "Invalid ID format")
               /\ UNCHANGED <<tasks, nextId, createdLog, doneLog, redoneLog>>
          ELSE IF taskIndex = 0
          THEN /\ res' = ErrorRes(404, "Task not found")
               /\ UNCHANGED <<tasks, nextId, createdLog, doneLog, redoneLog>>
          ELSE /\ tasks' = [tasks EXCEPT ![taskIndex].completed = ~tasks[taskIndex].completed]
               /\ res' = TaskRes(200, tasks'[taskIndex])
               /\ doneLog' = doneLog \cup {res'.tasks[1].id}
               /\ redoneLog' = redoneLog \cup ({res'.tasks[1].id} \cap doneLog)
               /\ UNCHANGED <<nextId, createdLog>>

\* mutant: a task that is already completed is refused
markTaskAsDone_OnceOnly(seg) ==
    LET id == ParseInt(seg)
        taskIndex == FindIndex(tasks, id)
    IN /\ req' = Req("done", Undefined, seg)
       /\ IF IsNaN(id)
          THEN /\ res' = ErrorRes(400, "Invalid ID format")
               /\ UNCHANGED <<tasks, nextId, createdLog, doneLog, redoneLog>>
          ELSE IF taskIndex = 0
          THEN /\ res' = ErrorRes(404, "Task not found")
               /\ UNCHANGED <<tasks, nextId, createdLog, doneLog, redoneLog>>
          ELSE IF tasks[taskIndex].completed
          THEN /\ res' = ErrorRes(400, "Task already completed")
               /\ UNCHANGED <<tasks, nextId, createdLog, doneLog, redoneLog>>
          ELSE /\ tasks' = [tasks EXCEPT ![taskIndex].completed = TRUE]
               /\ res' = TaskRes(200, tasks'[taskIndex])
               /\ doneLog' = doneLog \cup {res'.tasks[1].id}
               /\ redoneLog' = redoneLog \cup ({res'.tasks[1].id} \cap doneLog)
               /\ UNCHANGED <<nextId, createdLog>>

\* mutant: the lookup comes before the isNaN check
markTaskAsDone_LookupFirst(seg) ==
    LET id == ParseInt(seg)
        taskIndex == FindIndex(tasks, id)
    IN /\ req' = Req("done", Undefined, seg)
       /\ IF taskIndex = 0
          THEN /\ res' = ErrorRes(404, "Task not found")
               /\ UNCHANGED <<tasks, nextId, createdLog, doneLog, redoneLog>>
          ELSE IF IsNaN(id)
          THEN /\ res' = ErrorRes(400, "Invalid ID format")
               /\ UNCHANGED <<tasks, nextId, createdLog, doneLog, redoneLog>>
          ELSE /\ tasks' = [tasks EXCEPT ![taskIndex].completed = TRUE]
               /\ res' = TaskRes(200, tasks'[taskIndex])
               /\ doneLog' = doneLog \cup {res'.tasks[1].id}
               /\ redoneLog' = redoneLog \cup ({res'.tasks[1].id} \cap doneLog)
               /\ UNCHANGED <<nextId, createdLog>>

\* mutant: the completed task is taken out of the list (tasks.splice(taskIndex, 1))
markTaskAsDone_Remove(seg) ==
    LET id == ParseInt(seg)
        taskIndex == FindIndex(tasks, id)
    IN /\ req' = Req("done", Undefined, seg)
       /\ IF IsNaN(id)
          THEN /\ res' = ErrorRes(400, "Invalid ID format")
               /\ UNCHANGED <<tasks, nextId, createdLog, doneLog, redoneLog>>
          ELSE IF taskIndex = 0
          THEN /\ res' = ErrorRes(404, "Task not found")
               /\ UNCHANGED <<tasks, nextId, createdLog, doneLog, redoneLog>>
          ELSE /\ tasks' = SubSeq(tasks, 1, taskIndex - 1) \o SubSeq(tasks, taskIndex + 1, Len(tasks))
               /\ res' = TaskRes(200, [tasks[taskIndex] EXCEPT !.completed = TRUE])
               /\ doneLog' = doneLog \cup {res'.tasks[1].id}
               /\ redoneLog' = redoneLog \cup ({res'.tasks[1].id} \cap doneLog)
               /\ UNCHANGED <<nextId, createdLog>>

\* mutant: every task up to the one found is completed
markTaskAsDone_MarkUpTo(seg) ==
    LET id == ParseInt(seg)
        taskIndex == FindIndex(tasks, id)
    IN /\ req' = Req("done", Undefined, seg)
       /\ IF IsNaN(id)
          THEN /\ res' = ErrorRes(400, "Invalid ID format")
               /\ UNCHANGED <<tasks, nextId, createdLog, doneLog, redoneLog>>
          ELSE IF taskIndex = 0
          THEN /\ res' = ErrorRes(404, "Task not found")
               /\ UNCHANGED <<tasks, nextId, createdLog, doneLog, redoneLog>>
          ELSE /\ tasks' = [i \in 1..Len(tasks) |->
                              IF i <= taskIndex THEN [tasks[i] EXCEPT !.completed = TRUE]
                              ELSE tasks[i]]
               /\ res' = TaskRes(200, tasks'[taskIndex])
               /\ doneLog' = doneLog \cup {res'.tasks[1].id}
               /\ redoneLog' = redoneLog \cup ({res'.tasks[1].id} \cap doneLog)
               /\ UNCHANGED <<nextId, createdLog>>

markTaskAsDone(seg) ==
    LET id == ParseInt(seg)
        taskIndex == FindIndex(tasks, id)
    IN /\ req' = Req("done", Undefined, seg)
       /\ IF IsNaN(id)
          THEN /\ res' = ErrorRes(400, "Invalid ID format")
               /\ UNCHANGED <<tasks, nextId, createdLog, doneLog, redoneLog>>
          ELSE IF taskIndex = 0
          THEN /\ res' = ErrorRes(404, "Task not found")
               /\ UNCHANGED <<tasks, nextId, createdLog, doneLog, redoneLog>>
          ELSE /\ tasks' = [tasks EXCEPT ![taskIndex].completed = TRUE]
               /\ res' = TaskRes(200, tasks'[taskIndex])
               /\ doneLog' = doneLog \cup {res'.tasks[1].id}
               /\ redoneLog' = redoneLog \cup ({res'.tasks[1].id} \cap doneLog)
               /\ UNCHANGED <<nextId, createdLog>>

\* one request at a time: each handler call runs as one step
Next ==
    \/ getAllTasks /\ UNCHANGED calls
    \/ \E title \in CreateInputs : createTask(title) /\ UNCHANGED calls
    \/ \E seg \in Segments : getTaskById(seg) /\ UNCHANGED calls
    \/ \E seg \in Segments : markTaskAsDone(seg) /\ UNCHANGED calls

Spec == Init /\ [][Next]_vars

\* ------------------------------------------------------------- event loop
\* Several requests are in flight at once.  A handler call advances one
\* statement at a time; the event loop starts the calls in arrival order
\* and gives the thread to another call only where the running one is
\* suspended.

\* the requests delivered in SpecLoop
LoopRequests ==
    { Req("create", Str("A"), <<>>), Req("create", Str("Buy milk"), <<>>),
      Req("create", Undefined, <<>>),
      Req("done", Undefined, <<"1">>), Req("done", Undefined, <<"2">>),
      Req("get", Undefined, <<"1">>), Req("list", Undefined, <<>>) }

NoTask == Task(0, "", FALSE)

\* a call as delivered: not started, locals unset; overlap tells whether an
\* earlier call was still unfinished when this one arrived
Call(r, overlap) ==
    [req |-> r, pc |-> "pending", task |-> NoTask, taskIndex |-> 0, res |-> NoRes,
     overlap |-> overlap]

\* mutant: the handlers await something between reading the store and
\* writing it (after line 35 in createTask, after line 61 in markTaskAsDone)
Suspended_BeforeWrite(c) == c.pc \in {"L36", "L62"}

\* whether a started call has given up the thread: the handlers are plain
\* synchronous functions, no statement of theirs awaits or defers
Suspended(c) == FALSE

\* call k may take its next step
CanRun(k) ==
    /\ \A j \in 1..Len(calls) :
          j # k => (calls[j].pc \in {"pending", "done"} \/ Suspended(calls[j]))
    /\ calls[k].pc = "pending" => \A j \in 1..(k - 1) : calls[j].pc # "pending"

\* the dispatch layer delivers a request
Arrive(r) ==
    /\ Len(calls) < MaxCalls
    /\ calls' = Append(calls, Call(r, \E j \in 1..Len(calls) : calls[j].pc # "done"))
    /\ UNCHANGED <<tasks, nextId, req, res, createdLog, doneLog, redoneLog>>

\* call k goes on to statement pc
Goto(k, pc) == calls' = [calls EXCEPT ![k].pc = pc]

\* call k sends its response and returns
Respond(k, r) ==
    /\ calls' = [calls EXCEPT ![k].pc = "done", ![k].res = r]
    /\ req' = calls[k].req
    /\ res' = r

\* getAllTasks, line 26
getAllTasksL26(k) ==
    /\ calls[k].req.op = "list" /\ calls[k].pc = "pending"
    /\ Respond(k, ListRes(200, tasks))
    /\ UNCHANGED <<tasks, nextId, createdLog, doneLog, redoneLog>>

\* createTask, lines 30-34
createTaskL30(k) ==
    /\ calls[k].req.op = "create" /\ calls[k].pc = "pending"
    /\ IF calls[k].req.title = BodyAbsent
       THEN Respond(k, ThrownRes("TypeError"))
       ELSE IF TitleRejected(calls[k].req.title)
       THEN Respond(k, ErrorRes(400, "Title is required and must be a string"))
       ELSE Goto(k, "L35") /\ UNCHANGED <<req, res>>
    /\ UNCHANGED <<tasks, nextId, createdLog, doneLog, redoneLog>>

\* createTask, line 35
createTaskL35(k) ==
    /\ calls[k].req.op = "create" /\ calls[k].pc = "L35"
    /\ calls' = [calls EXCEPT ![k].pc = "L36",
                              ![k].task = Task(nextId, calls[k].req.title.val, FALSE)]
    /\ UNCHANGED <<tasks, nextId, req, res, createdLog, doneLog, redoneLog>>

\* createTask, line 36
createTaskL36(k) ==
    /\ calls[k].req.op = "create" /\ calls[k].pc = "L36"
    /\ tasks' = Append(tasks, calls[k].task)
    /\ Goto(k, "L37")
    /\ UNCHANGED <<nextId, req, res, createdLog, doneLog, redoneLog>>

\* createTask, line 37
createTaskL37(k) ==
    /\ calls[k].req.op = "create" /\ calls[k].pc = "L37"
    /\ nextId' = nextId + 1
    /\ Goto(k, "L38")
    /\ UNCHANGED <<tasks, req, res, createdLog, doneLog, redoneLog>>

\* createTask, line 38
createTaskL38(k) ==
    /\ calls[k].req.op = "create" /\ calls[k].pc = "L38"
    /\ Respond(k, TaskRes(201, calls[k].task))
    /\ createdLog' = Append(createdLog, [id |-> calls[k].task.id, title |-> calls[k].task.title])
    /\ UNCHANGED <<tasks, nextId, doneLog, redoneLog>>

\* getTaskById, lines 42-43: the task found is kept by reference
getTaskByIdL42(k) ==
    /\ calls[k].req.op = "get" /\ calls[k].pc = "pending"
    /\ calls' = [calls EXCEPT ![k].pc = "L44",
                              ![k].taskIndex = FindIndex(tasks, ParseInt(calls[k].req.seg))]
    /\ UNCHANGED <<tasks, nextId, req, res, createdLog, doneLog, redoneLog>>

\* getTaskById, lines 44-48
getTaskByIdL44(k) ==
    /\ calls[k].req.op = "get" /\ calls[k].pc = "L44"
    /\ IF calls[k].taskIndex = 0
       THEN Respond(k, ErrorRes(404, "Task not found"))
       ELSE Respond(k, TaskRes(200, tasks[calls[k].taskIndex]))
    /\ UNCHANGED <<tasks, nextId, createdLog, doneLog, redoneLog>>

\* markTaskAsDone, lines 52-56
markTaskAsDoneL52(k) ==
    /\ calls[k].req.op = "done" /\ calls[k].pc = "pending"
    /\ IF IsNaN(ParseInt(calls[k].req.seg))
       THEN Respond(k, ErrorRes(400, "Invalid ID format"))
       ELSE Goto(k, "L57") /\ UNCHANGED <<req, res>>
    /\ UNCHANGED <<tasks, nextId, createdLog, doneLog, redoneLog>>

\* markTaskAsDone, lines 57-61
markTaskAsDoneL57(k) ==
    /\ calls[k].req.op = "done" /\ calls[k].pc = "L57"
    /\ LET taskIndex == FindIndex(tasks, ParseInt(calls[k].req.seg))
       IN IF taskIndex = 0
          THEN Respond(k, ErrorRes(404, "Task not found"))
          ELSE /\ calls' = [calls EXCEPT ![k].pc = "L62", ![k].taskIndex = taskIndex]
               /\ UNCHANGED <<req, res>>
    /\ UNCHANGED <<tasks, nextId, createdLog, doneLog, redoneLog>>

\* markTaskAsDone, line 62
markTaskAsDoneL62(k) ==
    /\ calls[k].req.op = "done" /\ calls[k].pc = "L62"
    /\ tasks' = [tasks EXCEPT ![calls[k].taskIndex].completed = TRUE]
    /\ Goto(k, "L63")
    /\ UNCHANGED <<nextId, req, res, createdLog, doneLog, redoneLog>>

\* markTaskAsDone, line 63
markTaskAsDoneL63(k) ==
    /\ calls[k].req.op = "done" /\ calls[k].pc = "L63"
    /\ Respond(k, TaskRes(200, tasks[calls[k].taskIndex]))
    /\ doneLog' = doneLog \cup {tasks[calls[k].taskIndex].id}
    /\ redoneLog' = redoneLog \cup ({tasks[calls[k].taskIndex].id} \cap doneLog)
    /\ UNCHANGED <<tasks, nextId, createdLog>>

\* a request arrives, or a call that may run executes its next statement
NextLoop ==
    \/ \E r \in LoopRequests : Arrive(r)
    \/ \E k \in 1..Len(calls) : CanRun(k) /\ getAllTasksL26(k)
    \/ \E k \in 1..Len(calls) : CanRun(k) /\ createTaskL30(k)
    \/ \E k \in 1..Len(calls) : CanRun(k) /\ createTaskL35(k)
    \/ \E k \in 1..Len(calls) : CanRun(k) /\ createTaskL36(k)
    \/ \E k \in 1..Len(calls) : CanRun(k) /\ createTaskL37(k)
    \/ \E k \in 1..Len(calls) : CanRun(k) /\ createTaskL38(k)
    \/ \E k \in 1..Len(calls) : CanRun(k) /\ getTaskByIdL42(k)
    \/ \E k \in 1..Len(calls) : CanRun(k) /\ getTaskByIdL44(k)
    \/ \E k \in 1..Len(calls) : CanRun(k) /\ markTaskAsDoneL52(k)
    \/ \E k \in 1..Len(calls) : CanRun(k) /\ markTaskAsDoneL57(k)
    \/ \E k \in 1..Len(calls) : CanRun(k) /\ markTaskAsDoneL62(k)
    \/ \E k \in 1..Len(calls) : CanRun(k) /\ markTaskAsDoneL63(k)

SpecLoop == Init /\ [][NextLoop]_vars

\* --------------------------------------------------------- serial reference
\* The handler of request r run from its first statement to its last on
\* the store st (tasks, nextId): the store it leaves and its response.
Handle(st, r) ==
    LET same(resp) == [tasks |-> st.tasks, nextId |-> st.nextId, res |-> resp]
        id == ParseInt(r.seg)
        i == FindIndex(st.tasks, id)
        task == Task(st.nextId, r.title.val, FALSE)
        marked == [st.tasks EXCEPT ![i].completed = TRUE]
    IN CASE r.op = "list" -> same(ListRes(200, st.tasks))
         [] r.op = "create" ->
                IF r.title = BodyAbsent THEN same(ThrownRes("TypeError"))
                ELSE IF TitleRejected(r.title)
                THEN same(ErrorRes(400, "Title is required and must be a string"))
                ELSE [tasks |-> Append(st.tasks, task), nextId |-> st.nextId + 1,
                      res |-> TaskRes(201, task)]
         [] r.op = "get" ->
                IF i = 0 THEN same(ErrorRes(404, "Task not found"))
                ELSE same(TaskRes(200, st.tasks[i]))
         [] r.op = "done" ->
                IF IsNaN(id) THEN same(ErrorRes(400, "Invalid ID format"))
                ELSE IF i = 0 THEN same(ErrorRes(404, "Task not found"))
                ELSE [tasks |-> marked, nextId |-> st.nextId, res |-> TaskRes(200, marked[i])]

\* the store at process start
InitialStore == [tasks |-> <<>>, nextId |-> 1]

\* ----------------------------------------------------------------- claims
TitleError == ErrorRes(400, "Title is required and must be a string")

\* some task of ts has the id p
HasId(ts, p) == \E i \in 1..Len(ts) : StrictEq(ts[i].id, p)

\* C1: the ids of the successful Create calls are 1, 2, 3, ... in call
\* order, and no other request consumes an id: the counter is always one
\* more than the number of ids handed out.
C1_IdsSequential ==
    /\ \A i \in 1..Len(createdLog) : createdLog[i].id = i
    /\ nextId = Len(createdLog) + 1

\* two ids were handed out, with a successful MarkDone and a rejected
\* Create among the other requests
C1_Witness ==
    /\ Len(createdLog) >= 2
    /\ doneLog # {}
    /\ req.op = "create"
    /\ res.status = 400

\* C2: a Create whose body has no title, or a title that is not a string,
\* is answered 400 with the title error and leaves the task sequence and
\* the counter as they were; a List that follows returns that same sequence.
C2_RejectedCreateLeavesStore ==
    [][/\ (req'.op = "create" /\ req'.title # BodyAbsent /\ req'.title.type # "string")
            => (res' = TitleError /\ tasks' = tasks /\ nextId' = nextId)
       /\ (req.op = "create" /\ req.title # BodyAbsent /\ req.title.type # "string"
              /\ req'.op = "list")
            => (res'.tasks = tasks /\ tasks' = tasks)]_vars

\* a Create with a number as title was rejected on a store holding tasks
C2_Witness ==
    /\ req.op = "create"
    /\ req.title = Num("42")
    /\ res = TitleError
    /\ Len(tasks) >= 2

\* the new task of a successful Create: last in tasks', with the given title
Created(title) ==
    /\ res'.status = 201
    /\ tasks' = Append(tasks, Task(nextId, title.val, FALSE))

\* C3 as stated: a Create with a title of string type, the empty string
\* included, succeeds with 201 and adds a task with that title.
C3_AnyStringTitleCreated ==
    [][(req'.op = "create" /\ req'.title.type = "string") => Created(req'.title)]_vars

\* C3 as amended: a Create with a non-empty string title succeeds with 201
\* and adds a task with that title; the empty string is rejected with 400
\* and the title error, and the store is unchanged.
C3_NonEmptyStringTitleCreated ==
    [][(req'.op = "create" /\ req'.title.type = "string") =>
            IF req'.title.val # ""
            THEN Created(req'.title)
            ELSE res' = TitleError /\ tasks' = tasks /\ nextId' = nextId]_vars

\* a Create with the empty string as title was answered 400
C3_Witness ==
    /\ req.op = "create"
    /\ req.title = Str("")
    /\ res.status = 400
    /\ tasks # <<>>

\* C4: a successful Create responds 201 with {id: the counter before the
\* call, title, completed: false}, appends that record and increments the
\* counter; a List right after returns the sequence ending with that
\* record; on the empty store Create("Buy milk") then List gives exactly
\* [{id: 1, title: "Buy milk", completed: false}].
C4_CreateAppendsRecord ==
    [][/\ (req'.op = "create" /\ res'.status = 201) =>
            /\ res' = TaskRes(201, Task(nextId, req'.title.val, FALSE))
            /\ tasks' = Append(tasks, res'.tasks[1])
            /\ nextId' = nextId + 1
       /\ (req.op = "create" /\ res.status = 201 /\ req'.op = "list") =>
            /\ res'.status = 200
            /\ res'.tasks = tasks
            /\ tasks[Len(tasks)] = res.tasks[1]
       /\ (tasks = <<>> /\ req'.op = "create" /\ req'.title = Str("Buy milk")) =>
            tasks' = <<Task(1, "Buy milk", FALSE)>>
       /\ (req.op = "create" /\ req.title = Str("Buy milk") /\ Len(tasks) = 1
              /\ req'.op = "list") =>
            res'.tasks = <<Task(1, "Buy milk", FALSE)>>]_vars

\* a second task was just created on a store whose first task is done
C4_Witness ==
    /\ req.op = "create"
    /\ res = TaskRes(201, Task(2, "Buy milk", FALSE))
    /\ Len(tasks) = 2
    /\ tasks[1].completed

\* C5: a task starts with completed = false; the field changes only in a
\* MarkDone answered 200 for that task's id, and a completed task stays
\* completed.
C5_CompletedOnlyByMarkDone ==
    [][\A i \in 1..Len(tasks') :
          IF i > Len(tasks)
          THEN ~tasks'[i].completed
          ELSE /\ tasks[i].completed => tasks'[i].completed
               /\ tasks'[i].completed # tasks[i].completed =>
                    /\ req'.op = "done"
                    /\ res'.status = 200
                    /\ StrictEq(tasks[i].id, ParseInt(req'.seg))]_vars

\* a completed task has gone through a second MarkDone and a later Create
C5_Witness ==
    /\ redoneLog # {}
    /\ req.op = "create"
    /\ res.status = 201
    /\ \E i \in 1..Len(tasks) : tasks[i].completed /\ tasks[i].id \in redoneLog

\* C6: MarkDone on an existing task id responds 200 with a record whose
\* completed is true, every time; once a MarkDone has answered 200 for the
\* id, a further one changes neither the task sequence nor the counter.
C6_MarkDoneIdempotent ==
    [][(req'.op = "done" /\ HasId(tasks, ParseInt(req'.seg))) =>
            /\ res'.status = 200
            /\ res'.kind = "task"
            /\ res'.tasks[1].id = ParseInt(req'.seg).n
            /\ res'.tasks[1].completed
            /\ ParseInt(req'.seg).n \in doneLog => (tasks' = tasks /\ nextId' = nextId)]_vars

\* a MarkDone was answered 200 for an id that had been answered 200 before
C6_Witness ==
    /\ req.op = "done"
    /\ res.status = 200
    /\ res.tasks[1].completed
    /\ res.tasks[1].id \in redoneLog
    /\ Len(tasks) >= 2

\* C7: MarkDone answers 400 "Invalid ID format" when the segment parses to
\* NaN ("abc" does), else 404 "Task not found" when no task has the id,
\* else 200 with the task, completed; the 400 and 404 outcomes leave the
\* task sequence and the counter unchanged.
C7_MarkDoneOutcomes ==
    [][req'.op = "done" =>
            /\ req'.seg = <<"a", "b", "c">> => res'.status = 400
            /\ IF IsNaN(ParseInt(req'.seg))
               THEN /\ res' = ErrorRes(400, "Invalid ID format")
                    /\ tasks' = tasks /\ nextId' = nextId
               ELSE IF ~HasId(tasks, ParseInt(req'.seg))
               THEN /\ res' = ErrorRes(404, "Task not found")
                    /\ tasks' = tasks /\ nextId' = nextId
               ELSE /\ res'.status = 200
                    /\ res'.kind = "task"
                    /\ res'.tasks[1].completed
                    /\ \E i \in 1..Len(tasks') :
                          /\ tasks'[i] = res'.tasks[1]
                          /\ StrictEq(tasks'[i].id, ParseInt(req'.seg))]_vars

\* MarkDone("abc") was answered 400 on a store holding tasks
C7_Witness ==
    /\ req = Req("done", Undefined, <<"a", "b", "c">>)
    /\ res = ErrorRes(400, "Invalid ID format")
    /\ tasks # <<>>

\* C8: GetById responds 200 with the task whose id is the parsed id when
\* there is one, and 404 "Task not found" otherwise; never 400, also for a
\* segment MarkDone has just answered 400 for; 404 for every id on the
\* empty store; it changes neither the task sequence nor the counter.
C8_GetByIdOutcomes ==
    [][req'.op = "get" =>
            /\ IF HasId(tasks, ParseInt(req'.seg))
               THEN /\ res'.status = 200
                    /\ res'.kind = "task"
                    /\ res'.tasks[1].id = ParseInt(req'.seg).n
                    /\ \E i \in 1..Len(tasks) : tasks[i] = res'.tasks[1]
               ELSE res' = ErrorRes(404, "Task not found")
            /\ res'.status # 400
            /\ (req.op = "done" /\ res.status = 400 /\ req'.seg = req.seg)
                    => res'.status = 404
            /\ tasks = <<>> => res'.status = 404
            /\ tasks' = tasks
            /\ nextId' = nextId]_vars

\* GetById("abc") was answered 404 on a store holding tasks
C8_Witness ==
    /\ req = Req("get", Undefined, <<"a", "b", "c">>)
    /\ res = ErrorRes(404, "Task not found")
    /\ tasks # <<>>

\* the tasks the responses so far have announced: the records of the 201
\* responses in order, completed when a MarkDone has answered 200 for the id
Announced ==
    [i \in 1..Len(createdLog) |->
        Task(createdLog[i].id, createdLog[i].title, createdLog[i].id \in doneLog)]

\* C9: List responds 200 with every task created so far, once each, in
\* creation order, with its current completed value (the empty sequence
\* when none was created), and changes neither the task sequence nor the
\* counter.
C9_ListReturnsAll ==
    [][req'.op = "list" =>
            /\ res'.status = 200
            /\ res'.kind = "list"
            /\ Len(res'.tasks) = Len(createdLog)
            /\ \A i \in 1..Len(createdLog) : res'.tasks[i] = Announced[i]
            /\ tasks' = tasks
            /\ nextId' = nextId]_vars

\* a List returned an open task after a completed one
C9_Witness ==
    /\ req.op = "list"
    /\ res.status = 200
    /\ Len(res.tasks) >= 2
    /\ res.tasks[1].completed
    /\ ~res.tasks[2].completed

\* C10: a task stays in the sequence at its position with its id and its
\* title; the sequence never gets shorter and grows only by a successful
\* Create, by one.
C10_TasksNeverDeleted ==
    [][/\ \A i \in 1..Len(tasks) :
            /\ i <= Len(tasks')
            /\ tasks'[i].id = tasks[i].id
            /\ tasks'[i].title = tasks[i].title
       /\ Len(tasks') \in {Len(tasks), Len(tasks) + 1}
       /\ Len(tasks') = Len(tasks) + 1 => (req'.op = "create" /\ res'.status = 201)]_vars

\* every task was marked done and the sequence is still full
C10_Witness ==
    /\ Len(tasks) = MaxTasks
    /\ \A i \in 1..Len(tasks) : tasks[i].completed
    /\ req.op = "done"
    /\ res.status = 200

\* the calls that have returned, and whether no call is under way
DoneCalls == {k \in 1..Len(calls) : calls[k].pc = "done"}
Quiescent == \A k \in 1..Len(calls) : calls[k].pc \in {"pending", "done"}

\* the orders in which the calls of S can be run one after another
Orders(S) ==
    {o \in [1..Cardinality(S) -> S] : \A i, j \in 1..Cardinality(S) : o[i] = o[j] => i = j}

\* the calls of order o run one after another from store st, from the i-th
\* on: the store they leave, and whether every response is the one the call
\* has given
RECURSIVE RunSerial(_, _, _)
RunSerial(st, o, i) ==
    IF i > Len(o) THEN [tasks |-> st.tasks, nextId |-> st.nextId, ok |-> TRUE]
    ELSE LET h == Handle(st, calls[o[i]].req)
         IN IF h.res # calls[o[i]].res
            THEN [tasks |-> st.tasks, nextId |-> st.nextId, ok |-> FALSE]
            ELSE RunSerial([tasks |-> h.tasks, nextId |-> h.nextId], o, i + 1)

\* C11: with several requests in flight, whenever no call is under way the
\* store and the responses given are those of running the finished
\* handlers one after another in some order; two Creates never get the
\* same id and the task of each is stored; and while a call is between its
\* first and its last statement no other call takes a step.
C11_HandlersAtomic ==
    /\ [](Quiescent =>
            \E o \in Orders(DoneCalls) :
                RunSerial(InitialStore, o, 1) = [tasks |-> tasks, nextId |-> nextId, ok |-> TRUE])
    /\ [](\A k \in DoneCalls :
            calls[k].res.status = 201 =>
                /\ \E i \in 1..Len(tasks) : tasks[i].id = calls[k].res.tasks[1].id
                                              /\ tasks[i].title = calls[k].res.tasks[1].title
                /\ \A j \in DoneCalls \ {k} :
                      calls[j].res.status = 201 =>
                          calls[j].res.tasks[1].id # calls[k].res.tasks[1].id)
    /\ [][\A k \in 1..Len(calls) :
            calls[k].pc \notin {"pending", "done"} =>
                \A j \in 1..Len(calls) : j # k => calls'[j] = calls[j]]_vars

\* two Creates and a MarkDone, the later two delivered while an earlier
\* call had not returned, have all been answered
C11_Witness ==
    /\ Len(calls) = 3
    /\ Quiescent
    /\ calls[1].res.status = 201
    /\ calls[2].res.status = 201 /\ calls[2].overlap
    /\ calls[3].req.op = "done" /\ calls[3].res.status = 200 /\ calls[3].overlap

\* C12: every handler invocation, a Create without request body included,
\* ends with a response of a status listed for its endpoint (Create 201 or
\* 400, List 200, GetById 200 or 404, MarkDone 200, 400 or 404) and never
\* with an uncaught exception.
C12_EveryRequestAnswered ==
    /\ res.kind # "thrown"
    /\ req.op = "create" => res.status \in {201, 400}
    /\ req.op = "list" => res.status = 200
    /\ req.op = "get" => res.status \in {200, 404}
    /\ req.op = "done" => res.status \in {200, 400, 404}

\* C13: a MarkDone answered 200 changes only the completed field of the
\* task with that id: the other tasks, the order and length of the
\* sequence, every id and title and the counter stay as they were.  With
\* task 1 titled "A" and a second, open task, MarkDone("1") answers
\* {id: 1, title: "A", completed: true} and a List after it returns task 1
\* completed followed by task 2 open.
C13_MarkDoneFrame ==
    [][/\ (req'.op = "done" /\ res'.status = 200) =>
            /\ Len(tasks') = Len(tasks)
            /\ nextId' = nextId
            /\ \A i \in 1..Len(tasks) :
                  IF tasks[i].id = res'.tasks[1].id
                  THEN tasks'[i] = [tasks[i] EXCEPT !.completed = TRUE]
                  ELSE tasks'[i] = tasks[i]
       /\ (Len(tasks) = 2 /\ tasks[1] = Task(1, "A", FALSE) /\ ~tasks[2].completed
              /\ req' = Req("done", Undefined, <<"1">>)) =>
            /\ res' = TaskRes(200, Task(1, "A", TRUE))
            /\ tasks' = <<Task(1, "A", TRUE), tasks[2]>>
       /\ (req.op = "done" /\ res.status = 200 /\ req'.op = "list") =>
            res'.tasks = tasks]_vars

\* MarkDone("1") was answered 200 with two tasks stored; task 2 is open
C13_Witness ==
    /\ req = Req("done", Undefined, <<"1">>)
    /\ res = TaskRes(200, Task(1, "A", TRUE))
    /\ tasks = <<Task(1, "A", TRUE), Task(2, "Buy milk", FALSE)>>

\* C14: in every reachable state the task at 0-based position i has id
\* i + 1 and the counter is the length of the sequence plus 1; so no two
\* tasks share an id and every id is positive and below the counter.
C14_IdsArePositions ==
    /\ \A i \in 1..Len(tasks) : tasks[i].id = i
    /\ nextId = Len(tasks) + 1
    /\ \A i, j \in 1..Len(tasks) : tasks[i].id = tasks[j].id => i = j
    /\ \A i \in 1..Len(tasks) : tasks[i].id >= 1 /\ tasks[i].id < nextId

\* three tasks are stored and some MarkDone has succeeded
C14_Witness ==
    /\ Len(tasks) >= 3
    /\ doneLog # {}
    /\ \E i \in 1..Len(tasks) : ~tasks[i].completed

\* C15: for every id a Create has returned, a later GetById of that id
\* responds 200 with the record of that id and title, completed exactly
\* when a MarkDone has answered 200 for the id since; a later List holds
\* the same record.
C15_ReadYourWrites ==
    [][\A k \in 1..Len(createdLog) :
          /\ (req'.op = "get" /\ StrictEq(createdLog[k].id, ParseInt(req'.seg))) =>
                res' = TaskRes(200, Announced[k])
          /\ req'.op = "list" =>
                (Len(res'.tasks) >= k /\ res'.tasks[k] = Announced[k])]_vars

\* GetById of the second id created returned it completed
C15_Witness ==
    /\ req.op = "get"
    /\ res.status = 200
    /\ res.tasks[1].id = 2
    /\ res.tasks[1].completed
    /\ 2 \in doneLog

\* the decimal integer a segment starts with
LeadingInteger(seg) == DecimalValue(DigitPrefix(seg))

\* C16: a segment that starts with a decimal integer ("1abc", "1.5")
\* addresses the task whose id is that integer, in GetById and in MarkDone
\* alike: MarkDone answers 200 for it (marking that task) or 404, never
\* 400; a segment MarkDone answers 400 for does not start with a digit.
C16_PrefixParsing ==
    [][/\ (req'.op \in {"get", "done"} /\ DigitPrefix(req'.seg) # <<>>) =>
            IF \E i \in 1..Len(tasks) : tasks[i].id = LeadingInteger(req'.seg)
            THEN /\ res'.status = 200
                 /\ res'.kind = "task"
                 /\ res'.tasks[1].id = LeadingInteger(req'.seg)
                 /\ req'.op = "done" => res'.tasks[1].completed
                 /\ \E i \in 1..Len(tasks') : tasks'[i] = res'.tasks[1]
            ELSE res' = ErrorRes(404, "Task not found")
       /\ (req'.op = "done" /\ res'.status = 400) => DigitPrefix(req'.seg) = <<>>
       /\ (req'.seg \in {<<"1", "a", "b", "c">>, <<"1", ".", "5">>} /\ tasks # <<>>) =>
            (res'.status = 200 /\ res'.tasks[1].id = 1)]_vars

\* MarkDone("1abc") was answered 200 with task 1
C16_Witness ==
    /\ req = Req("done", Undefined, <<"1", "a", "b", "c">>)
    /\ res.status = 200
    /\ res.tasks[1].id = 1
    /\ res.tasks[1].completed

====
